---------------------------- MODULE Spec2Model ----------------------------
(***************************************************************************)
(* A model of the CumulusCI MCP server: the command runner                 *)
(* run_cci_command (src/utils.py) together with the child processes and    *)
(* pipes it talks to, and the instruction tools registered in src/main.py. *)
(*                                                                         *)
(* Text is a sequence of tokens (strings); a byte stream is a sequence of  *)
(* integers in 0..255; decoded text is a sequence of code points that is   *)
(* rendered token by token when it is interpolated into a message.         *)
(***************************************************************************)
EXTENDS Integers, Sequences, FiniteSets, TLC

VARIABLES path, call, children, tool

vars == <<path, call, children, tool>>

---------------------------------------------------------------------------
(* Bounds of the model.                                                    *)

\* concurrent run_cci_command calls in flight
NumCalls == 2
\* writes a child performs before it exits
MaxWrites == 2
\* capacity of an operating-system pipe, in bytes
PipeCap == 1

Calls == 1..NumCalls

\* subcommand strings handed to run_cci_command
Commands == {<<"org list">>, <<"task run deploy --org dev">>}

\* bytes a child may write: a space, 'a', and 0xFF, which is no part of any
\* UTF-8 sequence
Bytes == {32, 97, 255}

Streams == {"stdout", "stderr"}

\* exit codes of a child
Codes == {0, 2}

---------------------------------------------------------------------------
(* Faults.                                                                 *)

NoFault == "none"

\* An OSError (permission denied, a vanished working directory, an I/O
\* error on a pipe) derives from Exception; asyncio.CancelledError, which
\* is raised at an await of a cancelled task, derives from BaseException.
SyncFaults == {"OSError"}
AwaitFaults == {"OSError", "CancelledError"}

\* "except Exception" matches a fault exactly when it derives from Exception
IsException(f) == f \in {"OSError", "UnicodeDecodeError"}

\* str(e)
Str(f) ==
    CASE f = "OSError" -> "[Errno 13] Permission denied"
      [] f = "UnicodeDecodeError" -> "'utf-8' codec can't decode byte"
      [] OTHER -> ""

---------------------------------------------------------------------------
(* bytes.decode('utf-8') and str.strip().                                  *)

IsCont(b) == b >= 128 /\ b <= 191

\* the number of bytes of the well-formed UTF-8 sequence that starts bs,
\* 0 when bs starts with no well-formed sequence (strict decoding raises)
SeqLen(bs) ==
    LET n == Len(bs)
        b1 == bs[1]
        c(i) == n >= i /\ IsCont(bs[i])
    IN  IF b1 <= 127 THEN 1
        ELSE IF b1 >= 194 /\ b1 <= 223 THEN (IF c(2) THEN 2 ELSE 0)
        ELSE IF b1 = 224 THEN (IF c(2) /\ bs[2] >= 160 /\ c(3) THEN 3 ELSE 0)
        ELSE IF b1 = 237 THEN (IF c(2) /\ bs[2] <= 159 /\ c(3) THEN 3 ELSE 0)
        ELSE IF b1 >= 225 /\ b1 <= 239 THEN (IF c(2) /\ c(3) THEN 3 ELSE 0)
        ELSE IF b1 = 240 THEN (IF c(2) /\ bs[2] >= 144 /\ c(3) /\ c(4) THEN 4 ELSE 0)
        ELSE IF b1 = 244 THEN (IF c(2) /\ bs[2] <= 143 /\ c(3) /\ c(4) THEN 4 ELSE 0)
        ELSE IF b1 >= 241 /\ b1 <= 243 THEN (IF c(2) /\ c(3) /\ c(4) THEN 4 ELSE 0)
        ELSE 0

\* the code point a well-formed sequence of k bytes encodes
CodePoint(bs, k) ==
    CASE k = 1 -> bs[1]
      [] k = 2 -> (bs[1] - 192) * 64 + (bs[2] - 128)
      [] k = 3 -> (bs[1] - 224) * 4096 + (bs[2] - 128) * 64 + (bs[3] - 128)
      [] OTHER -> (bs[1] - 240) * 262144 + (bs[2] - 128) * 4096
                    + (bs[3] - 128) * 64 + (bs[4] - 128)

RECURSIVE Decode(_)
\* bytes.decode('utf-8'), errors='strict': the text, or a failure
Decode(bs) ==
    IF bs = <<>> THEN [ok |-> TRUE, text |-> <<>>]
    ELSE LET k == SeqLen(bs)
         IN  IF k = 0 THEN [ok |-> FALSE, text |-> <<>>]
             ELSE LET rest == Decode(SubSeq(bs, k + 1, Len(bs)))
                  IN  [ok |-> rest.ok,
                       text |-> IF rest.ok THEN <<CodePoint(bs, k)>> \o rest.text
                                ELSE <<>>]

\* str.isspace() of one code point
IsSpace(cp) == cp \in {9, 10, 11, 12, 13, 28, 29, 30, 31, 32, 133, 160}

RECURSIVE LStrip(_)
LStrip(t) ==
    IF t # <<>> /\ IsSpace(t[1]) THEN LStrip(Tail(t)) ELSE t

RECURSIVE RStrip(_)
RStrip(t) ==
    IF t # <<>> /\ IsSpace(t[Len(t)]) THEN RStrip(SubSeq(t, 1, Len(t) - 1)) ELSE t

\* str.strip()
Strip(t) == RStrip(LStrip(t))

\* a code point as it appears in a message
Chr(cp) ==
    CASE cp = 10 -> "\n"
      [] cp = 32 -> " "
      [] cp = 97 -> "a"
      [] OTHER -> "U+" \o ToString(cp)

\* text interpolated into an f-string
Render(t) == [i \in 1..Len(t) |-> Chr(t[i])]

---------------------------------------------------------------------------
(* The messages of run_cci_command.                                        *)

MissingMsg == <<"Error: CumulusCI (cci) is not installed or not in PATH">>

FullCommand(command) == <<"cci", " ">> \o command

SuccessMsg(full_command, stdout_text) ==
    <<"Command '">> \o full_command \o <<"' completed successfully:\n">>
        \o Render(stdout_text)

FailureMsg(full_command, returncode, stderr_text, stdout_text) ==
    LET head == <<"Command '">> \o full_command
                    \o <<"' failed with return code ", ToString(returncode)>>
        withErr == IF stderr_text # <<>>
                   THEN head \o <<"\nError: ">> \o Render(stderr_text)
                   ELSE head
    IN  IF stdout_text # <<>>
        THEN withErr \o <<"\nOutput: ">> \o Render(stdout_text)
        ELSE withErr

ErrorMsg(full_command, f) ==
    <<"Error running command '">> \o full_command \o <<"': ", Str(f)>>

---------------------------------------------------------------------------
(* Child processes.  A child runs a script: a sequence of one-byte writes, *)
(* each to its stdout or its stderr, and then exits with its exit code.    *)
(* children[c] lists the children started on behalf of call c, and a       *)
(* process handle <<c, i>> names the i-th of them.                         *)

Scripts(B, n) == UNION {[1..m -> Streams \X B] : m \in 0..n}

Programs(B, n, R) == [rc : R, script : Scripts(B, n)]

\* what a child may do when one call runs
RunPrograms == Programs(Bytes, MaxWrites, Codes)

\* what a child may do when calls run side by side: succeed with output,
\* fail with a diagnostic, fail silently
ConcPrograms ==
    {[rc |-> 0, script |-> <<<<"stdout", 97>>>>],
     [rc |-> 2, script |-> <<<<"stderr", 97>>>>],
     [rc |-> 2, script |-> <<>>]}

RECURSIVE Written(_, _)
\* the bytes a script writes to stream s, in order
Written(script, s) ==
    IF script = <<>> THEN <<>>
    ELSE IF script[1][1] = s THEN <<script[1][2]>> \o Written(Tail(script), s)
    ELSE Written(Tail(script), s)

NoPipes == [s \in Streams |-> <<>>]

None == <<>>

Child(h) == children[h[1]][h[2]]

Handles == UNION {{<<c, i>> : i \in 1..Len(children[c])} : c \in Calls}

\* the child create_subprocess_shell starts: both streams are pipes, and
\* no deadline is attached to it
NewChild(full_command, prog) ==
    [cmdline |-> full_command, rc |-> prog.rc, script |-> prog.script,
     pos |-> 0, pipe |-> NoPipes, status |-> "running", open |-> TRUE,
     timeout |-> "none"]

---------------------------------------------------------------------------
(* run_cci_command.                                                        *)

NewCall ==
    [pc |-> "NotStarted", command |-> <<>>, full_command |-> <<>>,
     process |-> None, buf |-> NoPipes, result |-> <<>>, raised |-> NoFault,
     found |-> "unknown", fault |-> NoFault, at |-> "none"]

Init ==
    /\ path \in BOOLEAN
    /\ call = [c \in Calls |-> NewCall]
    /\ children = [c \in Calls |-> <<>>]
    /\ tool = [n |-> 0, name |-> "none", args |-> <<>>, text |-> <<>>]

\* a lookup that finds cci wherever it looks
WhichAnything(p) == TRUE

\* shutil.which("cci")
Which(p) == p

\* "return s": the call is over and its locals are gone
Return(fr, s) ==
    [fr EXCEPT !.pc = "Returned", !.result = s, !.process = None,
               !.buf = NoPipes]

\* a fault f raised outside the try block, or one "except Exception" lets by
Propagate(fr, f, where) ==
    [fr EXCEPT !.pc = "Raised", !.raised = f, !.fault = f, !.at = where,
               !.process = None, !.buf = NoPipes]

\* a fault f raised inside the try block: "except Exception as e"
Except(fr, f, where) ==
    IF IsException(f)
    THEN [Return(fr, ErrorMsg(fr.full_command, f)) EXCEPT !.fault = f, !.at = where]
    ELSE Propagate(fr, f, where)

\* a handle kept in one place for all calls: the one of the first call
\* that holds one
SharedProcess(c) ==
    call[CHOOSE d \in Calls :
            /\ call[d].process # None
            /\ \A e \in Calls : call[e].process # None => d <= e].process

\* the local variable "process": the handle communicate() and returncode
\* are used on
Process(c) == call[c].process

\* lines 35-46: decode both streams, strip them, and word the outcome
Report(full_command, returncode, stdout, stderr) ==
    LET out == Decode(stdout)
        err == Decode(stderr)
        stdout_text == Strip(out.text)
        stderr_text == Strip(err.text)
    IN  IF ~out.ok \/ ~err.ok
        THEN [fault |-> "UnicodeDecodeError", text |-> <<>>]
        ELSE IF returncode = 0
        THEN [fault |-> NoFault, text |-> SuccessMsg(full_command, stdout_text)]
        ELSE [fault |-> NoFault,
              text |-> FailureMsg(full_command, returncode, stderr_text, stdout_text)]

\* The call up to its first await: the lookup (f is a fault it raises), the
\* full command, and os.getcwd() (g is a fault it raises).
Call(c, command, f, g) ==
    /\ call[c].pc = "NotStarted"
    /\ LET fr == [call[c] EXCEPT !.command = command,
                                  !.found = IF f # NoFault THEN "unknown"
                                            ELSE IF path THEN "found"
                                            ELSE "missing"]
       IN  call' = [call EXCEPT ![c] =
             IF f # NoFault THEN Propagate(fr, f, "lookup")
             ELSE IF ~Which(path) THEN Return(fr, MissingMsg)
             ELSE LET fc == [fr EXCEPT !.full_command = FullCommand(command)]
                  IN  IF g # NoFault THEN Except(fc, g, "getcwd")
                      ELSE [fc EXCEPT !.pc = "Spawning"]]
    /\ UNCHANGED <<path, children, tool>>

\* await asyncio.create_subprocess_shell(...) completes: the child exists
Spawn(c, prog) ==
    /\ call[c].pc = "Spawning"
    /\ children' = [children EXCEPT
                      ![c] = Append(@, NewChild(call[c].full_command, prog))]
    /\ call' = [call EXCEPT ![c].pc = "Running",
                            ![c].process = <<c, Len(children[c]) + 1>>]
    /\ UNCHANGED <<path, tool>>

\* await asyncio.create_subprocess_shell(...) raises f: no child exists
SpawnFault(c, f) ==
    /\ call[c].pc = "Spawning"
    /\ call' = [call EXCEPT ![c] = Except(call[c], f, "spawn")]
    /\ UNCHANGED <<path, children, tool>>

\* stderr is read only once stdout is at end of file
CanReadInTurn(c, s) ==
    /\ call[c].pc = "Running"
    /\ Child(call[c].process).open
    /\ Child(call[c].process).pipe[s] # <<>>
    /\ s = "stderr" =>
          /\ Child(call[c].process).status # "running"
          /\ Child(call[c].process).pipe["stdout"] = <<>>

\* communicate() reads stream s whenever its pipe holds data: the two
\* streams are drained by two readers that run concurrently
CanRead(c, s) ==
    /\ call[c].pc = "Running"
    /\ Child(Process(c)).open
    /\ Child(Process(c)).pipe[s] # <<>>

\* one reader of communicate() takes what the pipe of stream s holds
ReadPipe(c, s) ==
    /\ call[c].pc = "Running"
    /\ CanRead(c, s)
    /\ LET h == Process(c)
       IN  /\ call' = [call EXCEPT ![c].buf[s] = @ \o Child(h).pipe[s]]
           /\ children' = [children EXCEPT ![h[1]][h[2]].pipe[s] = <<>>]
    /\ UNCHANGED <<path, tool>>

\* both streams are at end of file and the child has exited
CanFinish(c) ==
    /\ call[c].pc = "Running"
    /\ Child(Process(c)).status # "running"
    /\ \A s \in Streams : Child(Process(c)).pipe[s] = <<>>

\* await process.communicate() completes, and the call runs to its return:
\* the pipes are closed, the child is reaped, the outcome is reported
Communicate(c) ==
    /\ call[c].pc = "Running"
    /\ CanFinish(c)
    /\ LET h == Process(c)
           r == Report(call[c].full_command, Child(h).rc,
                       call[c].buf["stdout"], call[c].buf["stderr"])
       IN  /\ children' = [children EXCEPT ![h[1]][h[2]].status = "reaped",
                                           ![h[1]][h[2]].open = FALSE]
           /\ call' = [call EXCEPT ![c] =
                 IF r.fault # NoFault THEN Except(call[c], r.fault, "decode")
                 ELSE Return(call[c], r.text)]
    /\ UNCHANGED <<path, tool>>

\* await process.communicate() raises f: nothing is done to the child
CommunicateFault(c, f) ==
    /\ call[c].pc = "Running"
    /\ call' = [call EXCEPT ![c] = Except(call[c], f, "communicate")]
    /\ UNCHANGED <<path, children, tool>>

---------------------------------------------------------------------------
(* The environment: the children and the search path.                      *)

\* the stream of the child's next write
NextStream(h) == Child(h).script[Child(h).pos + 1][1]

\* the child's next write fits into its pipe
CanWrite(h) ==
    /\ Child(h).status = "running"
    /\ Child(h).pos < Len(Child(h).script)
    /\ Len(Child(h).pipe[NextStream(h)]) < PipeCap

ChildWrite(h) ==
    /\ h \in Handles
    /\ CanWrite(h)
    /\ LET w == Child(h).script[Child(h).pos + 1]
       IN  children' = [children EXCEPT
                          ![h[1]][h[2]].pipe[w[1]] = Append(@, w[2]),
                          ![h[1]][h[2]].pos = @ + 1]
    /\ UNCHANGED <<path, call, tool>>

ChildExit(h) ==
    /\ h \in Handles
    /\ Child(h).status = "running"
    /\ Child(h).pos = Len(Child(h).script)
    /\ children' = [children EXCEPT ![h[1]][h[2]].status = "exited"]
    /\ UNCHANGED <<path, call, tool>>

\* cci is installed or removed
PathChange ==
    /\ path' = ~path
    /\ UNCHANGED <<call, children, tool>>

---------------------------------------------------------------------------
(* The tools registered in main.py.  A tool returns instruction text; the  *)
(* fixed paragraphs of a template are one token each, and the backquotes   *)
(* the templates put around a command are written as vertical bars.        *)

OrgNames == {"dev", "qa"}
Paths == {"force-app"}
TaskNames == {"deploy"}
UserRequests == {"deploy my code"}

\* the default of get_cci_command_instructions' timeout_minutes
DefaultTimeoutMinutes == 25

ErrorHandling == "\n\nCRITICAL ERROR HANDLING: ... contact the devops architect team\n\n"
TimeoutLead == "Use your bash tool to execute these commands. IMPORTANT: Use timeout parameter "
TimeoutTail == " (milliseconds) for long-running operations like scratch org creation."

get_cci_command_instructions(command, purpose, timeout_minutes) ==
    LET timeout_ms == timeout_minutes * 60 * 1000
    IN  <<"ACTION REQUIRED: ">> \o purpose \o <<":\n\nExecute: |">> \o command
            \o <<"|", ErrorHandling, TimeoutLead, ToString(timeout_ms), TimeoutTail>>

\* the template shared by the three create_*_scratch_org tools
CreateOrgText(org_name, flow) ==
    LET timeout_ms == 25 * 60 * 1000
    IN  <<"ACTION REQUIRED: Create scratch org '", org_name,
          "':\n\n1. Check for existing org: |cci org list|\n2. If an org named '",
          org_name, "' already exists: ... Execute |cci org remove --org ",
          org_name, "|\n3. Execute: |cci flow run ", flow, " --org ", org_name,
          "|", ErrorHandling, TimeoutLead, ToString(timeout_ms), TimeoutTail>>

\* what the protocol layer gets back from a tool
Response(name, args, text) ==
    [n |-> 1 - tool.n, name |-> name, args |-> args, text |-> text]

check_cci_installation ==
    /\ tool' = Response("check_cci_installation", <<>>,
               <<"ACTION REQUIRED: Check CumulusCI installation:\n\n1. First, check if CCI is installed: |cci --version| ...",
                 ErrorHandling>>)
    /\ UNCHANGED <<path, call, children>>

create_dev_scratch_org(org_name) ==
    /\ tool' = Response("create_dev_scratch_org", <<org_name>>,
               CreateOrgText(org_name, "dev_org"))
    /\ UNCHANGED <<path, call, children>>

create_feature_scratch_org(org_name) ==
    /\ tool' = Response("create_feature_scratch_org", <<org_name>>,
               CreateOrgText(org_name, "ci_feature_2gp"))
    /\ UNCHANGED <<path, call, children>>

create_beta_scratch_org(org_name) ==
    /\ tool' = Response("create_beta_scratch_org", <<org_name>>,
               CreateOrgText(org_name, "regression_org"))
    /\ UNCHANGED <<path, call, children>>

\* list_orgs starting the command itself instead of describing it
list_orgs_runs ==
    /\ call[1].pc = "NotStarted"
    /\ call' = [call EXCEPT ![1] =
                  [NewCall EXCEPT !.pc = "Spawning", !.found = "found",
                                  !.command = <<"org list">>,
                                  !.full_command = FullCommand(<<"org list">>)]]
    /\ tool' = Response("list_orgs", <<>>, <<>>)
    /\ UNCHANGED <<path, children>>

list_orgs ==
    LET command == <<"cci org list">>
        purpose == <<"List all connected CumulusCI orgs">>
    IN  /\ tool' = Response("list_orgs", <<>>,
                   get_cci_command_instructions(command, purpose, DefaultTimeoutMinutes))
        /\ UNCHANGED <<path, call, children>>

run_tests(org_name) ==
    LET command == <<"cci task run run_all_tests_locally --org ", org_name>>
        purpose == <<"Run Apex tests in org '", org_name, "'">>
    IN  /\ tool' = Response("run_tests", <<org_name>>,
                   get_cci_command_instructions(command, purpose, DefaultTimeoutMinutes))
        /\ UNCHANGED <<path, call, children>>

open_org(org_name) ==
    LET command == <<"cci org browser --org ", org_name>>
        purpose == <<"Open org '", org_name, "' in browser">>
    IN  /\ tool' = Response("open_org", <<org_name>>,
                   get_cci_command_instructions(command, purpose, DefaultTimeoutMinutes))
        /\ UNCHANGED <<path, call, children>>

retrieve_changes(org_name) ==
    LET command == <<"cci task run retrieve_changes --org ", org_name>>
        purpose == <<"Retrieves changes from org '", org_name, "' locally">>
    IN  /\ tool' = Response("retrieve_changes", <<org_name>>,
                   get_cci_command_instructions(command, purpose, DefaultTimeoutMinutes))
        /\ UNCHANGED <<path, call, children>>

\* str(check_only)
BoolStr(b) == IF b THEN "True" ELSE "False"

deploy(org_name, dir, check_only) ==
    LET command == <<"cci task run deploy --org ", org_name, " --check_only ",
                     BoolStr(check_only), " --path ", dir>>
        purpose == <<"Deploy metadata to org '", org_name, "'">>
    IN  /\ tool' = Response("deploy", <<org_name, dir, BoolStr(check_only)>>,
                   get_cci_command_instructions(command, purpose, DefaultTimeoutMinutes))
        /\ UNCHANGED <<path, call, children>>

run_generic_cci_task(task_name, user_request) ==
    /\ tool' = Response("run_generic_cci_task", <<task_name, user_request>>,
               <<"ACTION REQUIRED: Handle generic CCI task '", task_name, "' for: ",
                 user_request, "\n\nFollow this 3-step approach: ... |cci task info ",
                 task_name, "| ... |cci task run ", task_name,
                 " --option1 value1 --option2 value2 ...|", ErrorHandling,
                 TimeoutLead, "1500000",
                 " (25 minutes in milliseconds) for potentially long-running operations.">>)
    /\ UNCHANGED <<path, call, children>>

Tools ==
    \/ check_cci_installation
    \/ \E org_name \in OrgNames : create_dev_scratch_org(org_name)
    \/ \E org_name \in OrgNames : create_feature_scratch_org(org_name)
    \/ \E org_name \in OrgNames : create_beta_scratch_org(org_name)
    \/ list_orgs
    \/ \E org_name \in OrgNames : run_tests(org_name)
    \/ \E org_name \in OrgNames : open_org(org_name)
    \/ \E org_name \in OrgNames : retrieve_changes(org_name)
    \/ \E org_name \in OrgNames, dir \in Paths, check_only \in BOOLEAN :
          deploy(org_name, dir, check_only)
    \/ \E task_name \in TaskNames, user_request \in UserRequests :
          run_generic_cci_task(task_name, user_request)

---------------------------------------------------------------------------
(* Specifications.                                                         *)

Run(C, P) ==
    \/ \E c \in C, command \in Commands, f \in SyncFaults \cup {NoFault},
          g \in SyncFaults \cup {NoFault} : Call(c, command, f, g)
    \/ \E c \in C, prog \in P : Spawn(c, prog)
    \/ \E c \in C, f \in AwaitFaults : SpawnFault(c, f)
    \/ \E c \in C, s \in Streams : ReadPipe(c, s)
    \/ \E c \in C : Communicate(c)
    \/ \E c \in C, f \in AwaitFaults : CommunicateFault(c, f)
    \/ \E h \in Handles : ChildWrite(h)
    \/ \E h \in Handles : ChildExit(h)
    \/ PathChange

\* calls in flight at once
Next == Run(Calls, ConcPrograms)

Spec == Init /\ [][Next]_vars

\* one call, children that write more than a pipe holds, fair scheduling
NextRun == Run({1}, RunPrograms)

Fairness ==
    /\ \A s \in Streams : WF_vars(ReadPipe(1, s))
    /\ WF_vars(Communicate(1))
    /\ WF_vars(ChildWrite(<<1, 1>>))
    /\ WF_vars(ChildExit(<<1, 1>>))

SpecRun == Init /\ [][NextRun]_vars /\ Fairness

\* the server: tools are invoked while a command may be running
NextTools == Tools \/ Run({1}, ConcPrograms)

SpecTools == Init /\ [][NextTools]_vars

---------------------------------------------------------------------------
(* Properties.                                                             *)

Finished(c) == call[c].pc \in {"Returned", "Raised"}

\* t occurs in text as a run of consecutive tokens
Contains(text, t) ==
    \E i \in 1..(Len(text) - Len(t) + 1) : SubSeq(text, i, i + Len(t) - 1) = t

StartsWith(text, t) ==
    Len(text) >= Len(t) /\ SubSeq(text, 1, Len(t)) = t

\* the child of call c, once call c has one
Own(c) == children[c][1]

\* what the child of call c has written, or will write, to stream s
Captured(c, s) == Written(Own(c).script, s)

\* call c has waited for its child and seen it exit with code rc
SawExit(c, rc) ==
    /\ Finished(c)
    /\ children[c] # <<>>
    /\ Own(c).status = "reaped"
    /\ Own(c).rc = rc

\* C1: when cci is not on the search path at the time of a call, the call
\* returns the fixed diagnostic and no child process is started for it.
C1_MissingExecutable ==
    \A c \in Calls :
        call[c].found = "missing" =>
            /\ call[c].pc = "Returned"
            /\ call[c].result = MissingMsg
            /\ children[c] = <<>>

\* a call found cci missing while another call, made when cci was there,
\* has a child
C1_Witness ==
    \E c, d \in Calls :
        /\ call[c].found = "missing"
        /\ call[c].pc = "Returned"
        /\ children[d] # <<>>

\* C2: no fault raised at any step of a call propagates to the caller, and
\* a fault at or after the spawn is reported with the full command line and
\* the fault's description.
C2_NeverPropagates ==
    \A c \in Calls :
        /\ call[c].pc # "Raised"
        /\ (call[c].pc = "Returned"
              /\ call[c].at \in {"getcwd", "spawn", "communicate", "decode"}) =>
                /\ Contains(call[c].result, FullCommand(call[c].command))
                /\ Contains(call[c].result, <<Str(call[c].fault)>>)

\* C3: when cci is found and the child exits with code 0, the result is
\* exactly the success message: the full command, then the stripped stdout.
C3_SuccessMessage ==
    \A c \in Calls :
        (call[c].found = "found" /\ SawExit(c, 0)) =>
            LET full == FullCommand(call[c].command)
                out == Decode(Captured(c, "stdout"))
            IN  /\ call[c].pc = "Returned"
                /\ StartsWith(call[c].result,
                              <<"Command '">> \o full
                                  \o <<"' completed successfully:\n">>)
                /\ out.ok => call[c].result = SuccessMsg(full, Strip(out.text))
                /\ Strip(Strip(out.text)) = Strip(out.text)

\* C4: when the child exits with a non-zero code, the result starts with
\* the command and the code, has an Error line exactly when the stripped
\* stderr is non-empty, an Output line exactly when the stripped stdout is
\* non-empty, and never the success wording.
C4_FailureMessage ==
    \A c \in Calls :
        (\E rc \in Codes \ {0} : SawExit(c, rc)) =>
            LET full == FullCommand(call[c].command)
                out == Decode(Captured(c, "stdout"))
                err == Decode(Captured(c, "stderr"))
                r == call[c].result
            IN  /\ call[c].pc = "Returned"
                /\ StartsWith(r, <<"Command '">> \o full
                                    \o <<"' failed with return code ",
                                         ToString(Own(c).rc)>>)
                /\ ~Contains(r, <<"' completed successfully:\n">>)
                /\ err.ok => (Contains(r, <<"\nError: ">>) <=> Strip(err.text) # <<>>)
                /\ out.ok => (Contains(r, <<"\nOutput: ">>) <=> Strip(out.text) # <<>>)

\* C5: bytes that are not valid UTF-8 in stdout or stderr do not make
\* decoding fail: the result is still the one the exit code selects, never
\* the fault message.
C5_InvalidBytesTolerated ==
    \A c \in Calls :
        (\E rc \in Codes : SawExit(c, rc)) =>
            /\ call[c].pc = "Returned"
            /\ call[c].at # "decode"
            /\ ~StartsWith(call[c].result, <<"Error running command '">>)
            /\ Contains(call[c].result,
                        IF Own(c).rc = 0 THEN <<"' completed successfully:\n">>
                        ELSE <<"' failed with return code ", ToString(Own(c).rc)>>)

\* what call c returns when it runs alone: a function of its own command,
\* of what the lookup and the awaits did to it, and of its own child
Alone(c) ==
    LET full == FullCommand(call[c].command)
    IN  IF call[c].found = "missing" THEN MissingMsg
        ELSE IF call[c].at \in {"getcwd", "spawn", "communicate"}
        THEN ErrorMsg(full, call[c].fault)
        ELSE LET r == Report(full, Own(c).rc, Captured(c, "stdout"),
                             Captured(c, "stderr"))
             IN  IF r.fault # NoFault THEN ErrorMsg(full, r.fault) ELSE r.text

\* C6: calls in flight at once do not interact: each returned string is
\* built from the call's own command and its own child's exit code and
\* streams, and is what the call returns when it runs alone; a call never
\* touches the child of another call.
C6_Independence ==
    \A c \in Calls :
        /\ call[c].pc = "Returned" => call[c].result = Alone(c)
        /\ call[c].process \in {None, <<c, 1>>}
        /\ (children[c] # <<>> /\ Own(c).status = "reaped") => Finished(c)

\* one call has returned the failure its child reported while the child of
\* another call, started with another command, is still writing
C6_Witness ==
    \E c, d \in Calls :
        /\ call[c].pc = "Returned"
        /\ call[c].at = "none"
        /\ children[c] # <<>>
        /\ Own(c).rc = 2
        /\ Captured(c, "stderr") # <<>>
        /\ call[d].pc = "Running"
        /\ call[d].command # call[c].command
        /\ Own(d).rc = 0
        /\ Own(d).pipe["stdout"] # <<>>

\* C7: whenever a call that started a child returns, the child has been
\* reaped and its pipes are closed.
C7_ChildReleased ==
    \A c \in Calls :
        (call[c].pc = "Returned" /\ children[c] # <<>>) =>
            \A i \in 1..Len(children[c]) :
                /\ children[c][i].status = "reaped"
                /\ ~children[c][i].open

\* the order of the phases of a call; a call that ends with a fault, one
\* reported or one raised, leaves the order where the fault finds it
PhaseStep(p, q) ==
    \/ p = q
    \/ p = "NotStarted" /\ q \in {"Spawning", "Returned", "Raised"}
    \/ p = "Spawning" /\ q \in {"Running", "Returned", "Raised"}
    \/ p = "Running" /\ q \in {"Returned", "Raised"}

\* C8: a call goes through its phases in one linear order, starts at most
\* one child, has exactly one once it runs, never starts another, and never
\* reports a result before its child has terminated.
C8_LinearPhases ==
    [][\A c \in Calls :
          /\ PhaseStep(call[c].pc, call'[c].pc)
          /\ Len(children'[c]) <= 1
          /\ Len(children'[c]) >= Len(children[c])
          /\ call'[c].pc = "Running" => Len(children'[c]) = 1
          /\ (call'[c].pc = "Returned" /\ children'[c] # <<>>) =>
                children'[c][1].status # "running"]_vars

\* the child of call c cannot write: the pipe of its next write is full
ChildBlocked(c) ==
    /\ Own(c).status = "running"
    /\ Own(c).pos < Len(Own(c).script)
    /\ ~CanWrite(<<c, 1>>)

\* call c is inside communicate() with nothing it can read
ReaderBlocked(c) ==
    /\ call[c].pc = "Running"
    /\ \A s \in Streams : ~CanRead(c, s)

NoPipeDeadlock ==
    \A c \in Calls :
        (children[c] # <<>>) => ~(ChildBlocked(c) /\ ReaderBlocked(c))

\* C9: both streams are drained concurrently, so the child is never blocked
\* on a full pipe while the call is blocked on the other one, and under
\* fair scheduling a call that waits for its child eventually returns its
\* result, unless a fault is raised in it.
C9_NoPipeDeadlock ==
    /\ []NoPipeDeadlock
    /\ (call[1].pc = "Running") ~>
          (call[1].pc = "Returned" \/ call[1].fault # NoFault)

\* a call has returned the whole output of a child that wrote more to
\* stderr than a pipe holds before it wrote to stdout
C9_Witness ==
    /\ call[1].pc = "Returned"
    /\ call[1].at = "none"
    /\ children[1] # <<>>
    /\ Len(Captured(1, "stderr")) > PipeCap
    /\ Own(1).script[1][1] = "stderr"

\* the timeout a text tells its reader to use, wherever it names one
TimeoutsIn(text) ==
    {text[i + 1] : i \in {j \in 1..(Len(text) - 1) : text[j] = TimeoutLead}}

\* C10 as stated: a tool invocation starts no process and no
\* run_cci_command call, its text is determined by its arguments, and the
\* text of every tool names the timeout 1500000, which no process is given.
C10_EveryToolNamesTimeout ==
    [][tool' # tool =>
          /\ call' = call
          /\ children' = children
          /\ path' = path
          /\ (tool'.name = tool.name /\ tool'.args = tool.args) =>
                tool'.text = tool.text
          /\ TimeoutsIn(tool'.text) = {"1500000"}
          /\ \A h \in Handles : Child(h).timeout = "none"]_vars

\* C10: a tool invocation starts no process and no run_cci_command call,
\* its text is determined by its arguments, and the timeout the text names
\* (1500000 in the text of every tool but check_cci_installation, whose
\* text names none) is text only: no process is given one.
C10_ToolsOnlyInstruct ==
    [][tool' # tool =>
          /\ call' = call
          /\ children' = children
          /\ path' = path
          /\ (tool'.name = tool.name /\ tool'.args = tool.args) =>
                tool'.text = tool.text
          /\ tool'.name # "check_cci_installation" =>
                TimeoutsIn(tool'.text) = {"1500000"}
          /\ tool'.name = "check_cci_installation" =>
                TimeoutsIn(tool'.text) = {}
          /\ \A h \in Handles : Child(h).timeout = "none"]_vars

\* a tool has answered while a child process of a command is running
C10_Witness ==
    /\ tool.name = "deploy"
    /\ call[1].pc = "Running"
    /\ Own(1).status = "running"

=============================================================================
